---- MODULE Spec2Model ----
(***************************************************************************)
(* Model of bac_app.py: the Widmark BAC formula, the status classifier,   *)
(* the session state (drink list, monitoring flag and timestamps) and the *)
(* script reruns that the user's actions and the monitoring loop cause.   *)
(*                                                                         *)
(* Numbers.  The code computes in floating point; the model computes the  *)
(* same expressions exactly, over integers:                               *)
(*   - time is counted in units of REFRESH_INTERVAL_SECONDS (10 s), so    *)
(*     one hour is UnitsPerHour = 360 units;                              *)
(*   - total alcohol is counted in hundredths of an ounce                 *)
(*     (volume in oz times abv in percent);                               *)
(*   - r is in hundredths, food_factor in tenths;                         *)
(*   - a BAC value is a fraction [num, den] with                          *)
(*     den = BacScale * weight_lbs * r, or 0/1 for the literal 0.0.       *)
(***************************************************************************)
EXTENDS Integers, Sequences, FiniteSets, TLC

\* ------------------------------------------------------------ bounds ----
MaxDrinks == 2          \* longest drink list explored
MaxClock == 1           \* last clock instant explored (10 s units)
MaxMilli == 90          \* largest BAC sample handed to get_bac_status (1/1000 %)
MaxIndex == 3           \* largest index handed to remove_drink_callback

\* --------------------------------------------------- program constants ----
MALE_R == 73                        \* 0.73, in hundredths
FEMALE_R == 66                      \* 0.66, in hundredths
WIDMARK_FACTOR == 514               \* 5.14, in hundredths
REFRESH_INTERVAL_SECONDS == 10
UnitsPerHour == 360                 \* 3600.0 seconds / REFRESH_INTERVAL_SECONDS
\* METABOLISM_RATE_PER_HOUR = 0.015 per hour = 1/24000 per 10 s unit
BacScale == 24000
None == -1

\* ------------------------------------------------------- input domains ----
Genders == {"Male", "Female"}
Foods == {"Empty Stomach", "Light Meal", "Heavy Meal"}
Weights == {50, 160}                \* within [50.0, 500.0]
Offsets == {0, 4}                   \* half hours (step 0.5), within [0.0, 24.0]
Volumes == {0, 12}                  \* oz, within [0.0, 40.0]
ABVs == {0, 5}                      \* percent, within [0.0, 100.0]
NewDrink == [volume |-> 0, abv |-> 0]
Drink == [volume : Volumes, abv : ABVs]
DrinkLists == UNION {[1..n -> Drink] : n \in 0..MaxDrinks}

VARIABLES
    drinks,                     \* st.session_state.drinks
    start_monitoring,           \* st.session_state.start_monitoring
    monitoring_start_time,      \* st.session_state.monitoring_start_time
    last_calculated_bac_time,   \* st.session_state.last_calculated_bac_time
    first_drink_offset_hours,   \* st.session_state.first_drink_offset_hours (half hours)
    gender, weight_lbs, food,   \* sidebar widgets
    clock,                      \* datetime.datetime.now(), in 10 s units
    event,                      \* what caused the last rerun: add, remove, edit, start, stop, tick
    output,                     \* what the last script run put on the display
    prev_period,                \* wall-clock units of the monitoring period ended last
    call                        \* last direct call of a function, with its result

vars == <<drinks, start_monitoring, monitoring_start_time, last_calculated_bac_time,
          first_drink_offset_hours, gender, weight_lbs, food, clock, event, output,
          prev_period, call>>

session == <<drinks, start_monitoring, monitoring_start_time, last_calculated_bac_time,
             first_drink_offset_hours, gender, weight_lbs, food>>

\* ------------------------------------------------------ pure functions ----
Max(a, b) == IF a >= b THEN a ELSE b

Zero == [num |-> 0, den |-> 1]

\* bac >= 0.08, bac >= 0.05, bac > 0.0 on fractions
AtLeast008(bac) == bac.num * 25 >= 2 * bac.den
AtLeast005(bac) == bac.num * 20 >= bac.den
Positive(bac) == bac.num > 0

calculate_bac_value_noclamp(total_alcohol_oz, weight, r_value, food_factor, current_elapsed_hours) ==
    IF total_alcohol_oz <= 0 THEN Zero
    ELSE [num |-> total_alcohol_oz * WIDMARK_FACTOR * food_factor * (BacScale \div 1000)
                  - current_elapsed_hours * weight * r_value,
          den |-> BacScale * weight * r_value]

calculate_bac_value(total_alcohol_oz, weight, r_value, food_factor, current_elapsed_hours) ==
    IF total_alcohol_oz <= 0 THEN Zero
    ELSE LET den == BacScale * weight * r_value
             \* total/100 * 5.14 / (weight * r/100) * food/10, over den
             peak_bac == total_alcohol_oz * WIDMARK_FACTOR * food_factor * (BacScale \div 1000)
             \* 0.015 * units/360, over den
             current_bac == peak_bac - current_elapsed_hours * weight * r_value
         IN [num |-> Max(0, current_bac), den |-> den]

get_bac_status_strict(bac) ==
    IF bac.num * 25 > 2 * bac.den
      THEN <<"Legal Limit Exceeded - DO NOT DRIVE!", "danger", "siren">>
    ELSE IF bac.num * 20 > bac.den
      THEN <<"Impaired - Avoid risky activities!", "warning", "warning_sign">>
    ELSE IF Positive(bac)
      THEN <<"Some effects present - Drink responsibly.", "info", "check_mark">>
    ELSE <<"Sober - Enjoy responsibly!", "success", "lotus">>

get_bac_status(bac) ==
    IF AtLeast008(bac)
      THEN <<"Legal Limit Exceeded - DO NOT DRIVE!", "danger", "siren">>
    ELSE IF AtLeast005(bac)
      THEN <<"Impaired - Avoid risky activities!", "warning", "warning_sign">>
    ELSE IF Positive(bac)
      THEN <<"Some effects present - Drink responsibly.", "info", "check_mark">>
    ELSE <<"Sober - Enjoy responsibly!", "success", "lotus">>

\* list.pop(index) of Python, index counted from 0; a negative index counts
\* from the end; out of range raises IndexError and leaves the list alone
Without(list, i) == [k \in 1..(Len(list) - 1) |-> IF k <= i THEN list[k] ELSE list[k + 1]]

pop(list, index) ==
    LET i == IF index < 0 THEN index + Len(list) ELSE index
    IN IF i < 0 \/ i >= Len(list)
         THEN [drinks |-> list, raised |-> TRUE]
         ELSE [drinks |-> Without(list, i), raised |-> FALSE]

remove_drink_callback(list, index) ==
    IF index < Len(list) THEN pop(list, index)
    ELSE [drinks |-> list, raised |-> FALSE]

add_drink_callback(list) == Append(list, NewDrink)

RECURSIVE SumAlcohol(_, _)
SumAlcohol(list, n) ==
    IF n = 0 THEN 0 ELSE SumAlcohol(list, n - 1) + list[n].volume * list[n].abv

\* sum(volume * (abv / 100)), in hundredths of an ounce
total_alcohol_oz(list) == SumAlcohol(list, Len(list))

r_of(g) == IF g = "Male" THEN MALE_R ELSE FEMALE_R

food_factor_of(f) ==
    IF f = "Empty Stomach" THEN 10 ELSE IF f = "Light Meal" THEN 8 ELSE 5

\* first_drink_offset_hours in 10 s units
OffsetUnits(off) == off * (UnitsPerHour \div 2)

total_elapsed_hours_nooffset(off, start, now) == now - start

total_elapsed_hours(off, start, now) == OffsetUnits(off) + (now - start)


\* ------------------------------------------------------ script run ----
NoOutput == [kind |-> "none", elapsed |-> None, bac |-> Zero, status |-> <<"", "", "">>]

\* lines 169-233: what one run of the script displays
Render(list, g, w, f, off, active, start, now) ==
    IF active /\ start # None
      THEN LET e == total_elapsed_hours(off, start, now)
               current_bac == calculate_bac_value(total_alcohol_oz(list), w, r_of(g),
                                                  food_factor_of(f), e)
           IN [kind |-> "tick", elapsed |-> e, bac |-> current_bac,
               status |-> get_bac_status(current_bac)]
    ELSE IF total_alcohol_oz(list) > 0
      THEN LET initial_bac_estimate ==
                   calculate_bac_value(total_alcohol_oz(list), w, r_of(g),
                                       food_factor_of(f), OffsetUnits(off))
           IN [kind |-> "snapshot", elapsed |-> OffsetUnits(off),
               bac |-> initial_bac_estimate,
               status |-> get_bac_status(initial_bac_estimate)]
    ELSE NoOutput

\* the script run that follows the handling of an event, at the new clock
Rerun ==
    output' = Render(drinks', gender', weight_lbs', food', first_drink_offset_hours',
                     start_monitoring', monitoring_start_time', clock')

\* wall-clock time passing before the run: at least min units, at most min + 1
Elapse(min) == \E d \in min..(min + 1) : clock + d <= MaxClock /\ clock' = clock + d

\* line 151: disabled=(total_alcohol_oz == 0) or st.session_state.start_monitoring
StartDisabled_onlyactive(list, active) == active

StartDisabled_never(list, active) == FALSE

StartDisabled(list, active) == total_alcohol_oz(list) = 0 \/ active

\* line 157: disabled=not st.session_state.start_monitoring
StopDisabled(active) == ~active

\* lines 152-154
AfterStart_epoch(now) == [active |-> TRUE, start |-> 0, last |-> now]

AfterStart(now) == [active |-> TRUE, start |-> now, last |-> now]

\* lines 158-160
AfterStop_keepstart(start) == [active |-> FALSE, start |-> start, last |-> None]

AfterStop_stillactive(start) == [active |-> TRUE, start |-> start, last |-> None]

AfterStop(start) == [active |-> FALSE, start |-> None, last |-> None]

\* -------------------------------------------------------------- Init ----
Init ==
    /\ drinks = <<>>
    /\ start_monitoring = FALSE
    /\ monitoring_start_time = None
    /\ last_calculated_bac_time = None
    /\ first_drink_offset_hours = 0
    /\ gender = "Male"
    /\ weight_lbs = 160
    /\ food = "Empty Stomach"
    /\ clock = 0
    /\ event = "init"
    /\ output = NoOutput
    /\ prev_period = None
    /\ call = [op |-> "none", done |-> TRUE]

monitoring == <<start_monitoring, monitoring_start_time, last_calculated_bac_time>>
profile == <<gender, weight_lbs, food>>

\* ----------------------------------------------------------- actions ----
AddDrink ==
    /\ Len(drinks) < MaxDrinks
    /\ drinks' = add_drink_callback(drinks)
    /\ event' = "add"
    /\ Elapse(0)
    /\ UNCHANGED <<monitoring, first_drink_offset_hours, profile, prev_period, call>>
    /\ Rerun

\* the remove button of row i (rows are numbered from 0)
RemoveDrink ==
    \E i \in 0..(Len(drinks) - 1) :
        /\ drinks' = remove_drink_callback(drinks, i).drinks
        /\ event' = "remove"
        /\ Elapse(0)
        /\ UNCHANGED <<monitoring, first_drink_offset_hours, profile, prev_period, call>>
        /\ Rerun

\* line 115: the volume input of row i
SetVolume ==
    \E i \in 1..Len(drinks), v \in Volumes :
        /\ v # drinks[i].volume
        /\ drinks' = [drinks EXCEPT ![i].volume = v]
        /\ event' = "edit"
        /\ Elapse(0)
        /\ UNCHANGED <<monitoring, first_drink_offset_hours, profile, prev_period, call>>
        /\ Rerun

\* line 124: the abv input of row i
SetAbv ==
    \E i \in 1..Len(drinks), a \in ABVs :
        /\ a # drinks[i].abv
        /\ drinks' = [drinks EXCEPT ![i].abv = a]
        /\ event' = "edit"
        /\ Elapse(0)
        /\ UNCHANGED <<monitoring, first_drink_offset_hours, profile, prev_period, call>>
        /\ Rerun

\* line 89: the offset input is read on every run, monitoring or not
SetOffset ==
    \E h \in Offsets :
        /\ h # first_drink_offset_hours
        /\ first_drink_offset_hours' = h
        /\ event' = "edit"
        /\ Elapse(0)
        /\ UNCHANGED <<drinks, monitoring, profile, prev_period, call>>
        /\ Rerun

SetGender ==
    \E g \in Genders :
        /\ g # gender
        /\ gender' = g
        /\ event' = "edit"
        /\ Elapse(0)
        /\ UNCHANGED <<drinks, monitoring, first_drink_offset_hours, weight_lbs, food,
                       prev_period, call>>
        /\ Rerun

SetWeight ==
    \E w \in Weights :
        /\ w # weight_lbs
        /\ weight_lbs' = w
        /\ event' = "edit"
        /\ Elapse(0)
        /\ UNCHANGED <<drinks, monitoring, first_drink_offset_hours, gender, food,
                       prev_period, call>>
        /\ Rerun

SetFood ==
    \E f \in Foods :
        /\ f # food
        /\ food' = f
        /\ event' = "edit"
        /\ Elapse(0)
        /\ UNCHANGED <<drinks, monitoring, first_drink_offset_hours, gender, weight_lbs,
                       prev_period, call>>
        /\ Rerun

\* lines 151-155: a click on Start; a disabled button returns False and no
\* run follows
StartMonitoring ==
    /\ event' = "start"
    /\ IF StartDisabled(drinks, start_monitoring)
         THEN UNCHANGED <<session, clock, output, prev_period, call>>
         ELSE /\ Elapse(0)
              /\ start_monitoring' = AfterStart(clock').active
              /\ monitoring_start_time' = AfterStart(clock').start
              /\ last_calculated_bac_time' = AfterStart(clock').last
              /\ UNCHANGED <<drinks, first_drink_offset_hours, profile, prev_period, call>>
              /\ Rerun

\* lines 157-161: a click on Stop
StopMonitoring ==
    /\ event' = "stop"
    /\ IF StopDisabled(start_monitoring)
         THEN UNCHANGED <<session, clock, output, prev_period, call>>
         ELSE /\ Elapse(0)
              /\ start_monitoring' = AfterStop(monitoring_start_time).active
              /\ monitoring_start_time' = AfterStop(monitoring_start_time).start
              /\ last_calculated_bac_time' = AfterStop(monitoring_start_time).last
              /\ prev_period' = clock' - monitoring_start_time
              /\ UNCHANGED <<drinks, first_drink_offset_hours, profile, call>>
              /\ Rerun

\* lines 170-213: time.sleep(REFRESH_INTERVAL_SECONDS), st.rerun(), next pass
Tick ==
    /\ start_monitoring
    /\ event' = "tick"
    /\ Elapse(1)
    /\ UNCHANGED <<session, prev_period, call>>
    /\ Rerun

Next ==
    \/ AddDrink
    \/ RemoveDrink
    \/ SetVolume
    \/ SetAbv
    \/ SetOffset
    \/ SetGender
    \/ SetWeight
    \/ SetFood
    \/ StartMonitoring
    \/ StopMonitoring
    \/ Tick

Spec == Init /\ [][Next]_vars

\* ------------------------------------------- the functions on their own ----
\* Each behaviour of FnSpec is one call: Init draws the arguments (and, for
\* remove_drink_callback, the drink list it works on), the action applies
\* the function and records what it returned.
Totals == {-60, 0, 100} \cup {total_alcohol_oz(l) : l \in DrinkLists}
ElapsedSamples == {0, 3 * UnitsPerHour}
                    \cup {total_elapsed_hours(off, 0, now) : off \in Offsets, now \in 0..MaxClock}

CalculateCalls ==
    [op : {"calculate_bac_value"}, done : {FALSE}, total_alcohol_oz : Totals,
     weight_lbs : Weights, r_value : {r_of(g) : g \in Genders},
     food_factor : {food_factor_of(f) : f \in Foods},
     current_elapsed_hours : ElapsedSamples]

StatusCalls ==
    [op : {"get_bac_status"}, done : {FALSE},
     bac : [num : 0..MaxMilli, den : {1000}]]

RemoveCalls ==
    [op : {"remove_drink_callback"}, done : {FALSE}, index : (-MaxIndex)..MaxIndex]

FnInit ==
    /\ call \in CalculateCalls \cup StatusCalls \cup RemoveCalls
    /\ drinks \in (IF call.op = "remove_drink_callback" THEN DrinkLists ELSE {<<>>})
    /\ start_monitoring = FALSE
    /\ monitoring_start_time = None
    /\ last_calculated_bac_time = None
    /\ first_drink_offset_hours = 0
    /\ gender = "Male"
    /\ weight_lbs = 160
    /\ food = "Empty Stomach"
    /\ clock = 0
    /\ event = "init"
    /\ output = NoOutput
    /\ prev_period = None

CallCalculate ==
    /\ call.op = "calculate_bac_value" /\ ~call.done
    /\ call' = [op |-> call.op, done |-> TRUE,
                total_alcohol_oz |-> call.total_alcohol_oz,
                weight_lbs |-> call.weight_lbs, r_value |-> call.r_value,
                food_factor |-> call.food_factor,
                current_elapsed_hours |-> call.current_elapsed_hours,
                result |-> calculate_bac_value(call.total_alcohol_oz, call.weight_lbs,
                                               call.r_value, call.food_factor,
                                               call.current_elapsed_hours)]
    /\ UNCHANGED <<session, clock, event, output, prev_period>>

CallStatus ==
    /\ call.op = "get_bac_status" /\ ~call.done
    /\ call' = [op |-> call.op, done |-> TRUE, bac |-> call.bac,
                result |-> get_bac_status(call.bac)]
    /\ UNCHANGED <<session, clock, event, output, prev_period>>

CallRemove ==
    /\ call.op = "remove_drink_callback" /\ ~call.done
    /\ drinks' = remove_drink_callback(drinks, call.index).drinks
    /\ call' = [op |-> call.op, done |-> TRUE, index |-> call.index, before |-> drinks,
                raised |-> remove_drink_callback(drinks, call.index).raised]
    /\ UNCHANGED <<monitoring, first_drink_offset_hours, profile, clock, event, output,
                   prev_period>>

FnNext ==
    \/ CallCalculate
    \/ CallStatus
    \/ CallRemove

FnSpec == FnInit /\ [][FnNext]_vars

\* ============================================================ claims ====

\* C1: in every reachable state of the session, monitoring_start_time is
\* non-null if and only if start_monitoring is true.
C1_StartTimeIffActive == (monitoring_start_time # None) <=> start_monitoring

\* a stop that ended a monitoring period in which time had passed
C1_Witness ==
    event = "stop" /\ ~start_monitoring /\ monitoring_start_time = None /\ prev_period > 0

\* C2: remove_drink(index) removes exactly the element at position index when
\* 0 <= index < length, and for every other index (too large or negative,
\* also on an empty list) leaves the list unchanged and raises no error.
C2_RemoveOnlyInRange ==
    (call.op = "remove_drink_callback" /\ call.done) =>
        /\ ~call.raised
        /\ drinks = IF 0 <= call.index /\ call.index < Len(call.before)
                      THEN Without(call.before, call.index)
                      ELSE call.before

\* C3: with weight_lbs > 0 and r_value > 0, calculate_bac_value returns 0.0
\* when total_alcohol_oz <= 0 whatever the elapsed time, and otherwise
\* max(0, total * 5.14 / (weight * r) * food_factor - 0.015 * elapsed_hours);
\* the result is never negative.
C3_Formula ==
    (call.op = "calculate_bac_value" /\ call.done) =>
        LET t == call.total_alcohol_oz
            scale == 24000 * call.weight_lbs * call.r_value
            \* (t/100 * 5.14 / (w * r/100) * f/10 - 0.015 * e/360) * scale
            raw == t * 514 * call.food_factor * 24
                     - call.current_elapsed_hours * call.weight_lbs * call.r_value
        IN /\ call.weight_lbs > 0 /\ call.r_value > 0
           /\ t <= 0 => call.result = [num |-> 0, den |-> 1]
           /\ t > 0 => /\ call.result.den = scale
                       /\ call.result.num = (IF raw > 0 THEN raw ELSE 0)
           /\ call.result.num >= 0
           /\ call.result.den > 0

\* a call with alcohol whose formula value is below zero and was clamped
C3_Witness ==
    /\ call.op = "calculate_bac_value" /\ call.done
    /\ call.total_alcohol_oz > 0
    /\ call.total_alcohol_oz * 514 * call.food_factor * 24
         < call.current_elapsed_hours * call.weight_lbs * call.r_value
    /\ call.result.num = 0

\* C4: get_bac_status maps every non-negative BAC to exactly one of four
\* buckets: Danger for bac >= 0.08, Warning for 0.05 <= bac < 0.08, Info for
\* 0 < bac < 0.05, Success for bac = 0; 0.08 and 0.05 fall in the
\* higher-severity bucket, and each bucket returns its own fixed message.
C4_Buckets ==
    (call.op = "get_bac_status" /\ call.done) =>
        LET m == call.bac.num       \* thousandths of a percent
            message == call.result[1]
            color == call.result[2]
        IN /\ call.bac.den = 1000
           /\ color \in {"danger", "warning", "info", "success"}
           /\ color = "danger" <=> m >= 80
           /\ color = "warning" <=> (50 <= m /\ m < 80)
           /\ color = "info" <=> (0 < m /\ m < 50)
           /\ color = "success" <=> m = 0
           /\ color = "danger" => message = "Legal Limit Exceeded - DO NOT DRIVE!"
           /\ color = "warning" => message = "Impaired - Avoid risky activities!"
           /\ color = "info" => message = "Some effects present - Drink responsibly."
           /\ color = "success" => message = "Sober - Enjoy responsibly!"

\* the boundary 0.08 classified as Danger
C4_Witness ==
    call.op = "get_bac_status" /\ call.done /\ call.bac.num = 80 /\ call.result[2] = "danger"

\* C5: the Idle -> Monitoring transition is taken only on a start, from a
\* state with total alcohol > 0 and monitoring not active, and sets the flag
\* and start_time = now; a start attempt with total alcohol 0 or while
\* already active changes nothing of the session, start_time included.
C5_StartGuard ==
    [][ /\ (~start_monitoring /\ start_monitoring') =>
              /\ event' = "start"
              /\ total_alcohol_oz(drinks) > 0
              /\ monitoring_start_time' = clock'
        /\ (event' = "start" /\ total_alcohol_oz(drinks) > 0 /\ ~start_monitoring) =>
              /\ start_monitoring'
              /\ monitoring_start_time' = clock'
        /\ (event' = "start" /\ (total_alcohol_oz(drinks) = 0 \/ start_monitoring)) =>
              UNCHANGED <<session, output>>
      ]_vars

\* a start attempt while monitoring was already running for some time
C5_Witness ==
    /\ event = "start"
    /\ start_monitoring
    /\ monitoring_start_time # None
    /\ monitoring_start_time < clock

\* C6: while monitoring stays active, the elapsed hours computed on successive
\* ticks never decrease, under any interleaving of ticks with drink edits,
\* profile edits and edits of the first-drink offset.
C6_ElapsedMonotone ==
    [][ (start_monitoring /\ start_monitoring'
           /\ output.kind = "tick" /\ output'.kind = "tick")
          => output'.elapsed >= output.elapsed ]_vars

\* C7: stop and restart leave first_drink_offset_hours as it was and set
\* start_time to the restart instant, so that the first pass of the loop
\* after the restart computes elapsed = first_drink_offset_hours + 0.
C7_RestartResetsClock ==
    [][ /\ (event' = "stop") => first_drink_offset_hours' = first_drink_offset_hours
        /\ (~start_monitoring /\ start_monitoring') =>
              /\ first_drink_offset_hours' = first_drink_offset_hours
              /\ monitoring_start_time' = clock'
              /\ output'.kind = "tick"
              /\ output'.elapsed = first_drink_offset_hours' * 180
      ]_vars

\* a restart after a monitoring period that had accumulated time
C7_Witness ==
    /\ event = "start"
    /\ start_monitoring
    /\ prev_period > 0
    /\ first_drink_offset_hours > 0
    /\ monitoring_start_time = clock
    /\ output.elapsed = first_drink_offset_hours * 180

\* C8: monitoring never ends on its own: it is left only through a stop,
\* which clears the flag and start_time, whatever the BAC; every other step
\* keeps it active, and no tick output exists while it is inactive.
C8_OnlyStopEnds ==
    [][ /\ (start_monitoring /\ ~start_monitoring') =>
              (event' = "stop" /\ monitoring_start_time' = None)
        /\ (start_monitoring /\ event' = "stop") =>
              (~start_monitoring' /\ monitoring_start_time' = None)
        /\ (start_monitoring /\ event' # "stop") => start_monitoring'
        /\ ~start_monitoring' => output'.kind # "tick"
      ]_vars

\* a timer pass of the loop with alcohol entered and the BAC already at 0
C8_Witness ==
    /\ start_monitoring
    /\ event = "tick"
    /\ total_alcohol_oz(drinks) > 0
    /\ output.kind = "tick"
    /\ output.bac.num = 0

\* C9: the display depends only on the monitoring state and the inputs: a
\* tick (bac, status) at elapsed = offset + (now - start_time) in Monitoring,
\* one snapshot at elapsed = offset in Idle with alcohol, nothing in Idle
\* without alcohol.
C9_Output ==
    LET total == total_alcohol_oz(drinks)
        r == r_of(gender)
        ff == food_factor_of(food)
        offs == first_drink_offset_hours * 180
    IN /\ start_monitoring =>
            /\ output.kind = "tick"
            /\ output.elapsed = offs + (clock - monitoring_start_time)
            /\ output.bac = calculate_bac_value(total, weight_lbs, r, ff,
                                                offs + (clock - monitoring_start_time))
            /\ output.status = get_bac_status(output.bac)
       /\ (~start_monitoring /\ total > 0) =>
            /\ output.kind = "snapshot"
            /\ output.elapsed = offs
            /\ output.bac = calculate_bac_value(total, weight_lbs, r, ff, offs)
            /\ output.status = get_bac_status(output.bac)
       /\ (~start_monitoring /\ total = 0) => output = NoOutput

\* a tick with a non-zero offset, time passed since the start, and BAC > 0
C9_Witness ==
    /\ start_monitoring
    /\ output.kind = "tick"
    /\ first_drink_offset_hours > 0
    /\ monitoring_start_time # None
    /\ clock > monitoring_start_time
    /\ output.bac.num > 0

\* C10 as stated: in every reachable state where monitoring is active, the
\* total alcohol of the drink list is > 0.
C10_AlcoholWhileMonitoring == start_monitoring => total_alcohol_oz(drinks) > 0

\* C10 as amended: total alcohol is > 0 when monitoring starts, and every
\* step that keeps monitoring active keeps it > 0 unless it removes a drink
\* or updates one (add_drink, offset and profile edits, ticks keep it > 0):
\* a removal or an update may bring it to 0 with monitoring still on.
C10_AlcoholUnlessEdited ==
    [][ (/\ start_monitoring'
         /\ start_monitoring => total_alcohol_oz(drinks) > 0
         /\ (drinks' = drinks \/ drinks' = Append(drinks, [volume |-> 0, abv |-> 0])))
          => total_alcohol_oz(drinks') > 0 ]_vars

\* an add_drink during monitoring, alcohol still > 0
C10_Witness ==
    /\ start_monitoring
    /\ event = "add"
    /\ Len(drinks) >= 2
    /\ total_alcohol_oz(drinks) > 0

====
